---------------------------- MODULE Spec2Model ----------------------------
(***************************************************************************)
(* State-machine model of spatialdata/_io/read.py: read_zarr walks the     *)
(* top-level groups of a zarr store, reads multiscale images and labels,   *)
(* points, polygons, shapes and the annotation table, and returns one      *)
(* SpatialData object.  A Python exception raised anywhere inside the walk *)
(* propagates out of read_zarr (the file has no try/except).               *)
(***************************************************************************)
EXTENDS Integers, Sequences, FiniteSets, TLC

(***************************************************************************)
(* Bounds of the model.                                                    *)
(***************************************************************************)
\* number of top-level groups the store may hold
MaxGroups == 2
\* number of elements (reader nodes and secondary sub-groups) one call visits
MaxElements == 2
\* number of resolution datasets / per-dataset transformation lists of a node
MaxDatasets == 2
\* number of transformation descriptions of a geometry dataset
MaxTransforms == 2

(***************************************************************************)
(* Values.                                                                 *)
(***************************************************************************)
\* Python's None
None == [cls |-> "NoneType"]

\* a local variable that holds nothing the walk still reads
Unbound == [cls |-> "unbound"]

\* no element key
NoKey == ""

\* the name of the i-th top-level group, f.keys()
GroupName(i) == "fov" \o ToString(i)

Keys == {GroupName(i) : i \in 1..MaxGroups}

\* the spec classes a Node of ome_zarr.reader may carry in node.specs
SpecMarkers == {"Multiscales", "Label"}

\* the i-th resolution dataset path of a multiscale node ("0", "1", ...)
DatasetPath(i) == ToString(i - 1)

\* the transformation description stored for the i-th entry
Description(i) == [type |-> "scale", level |-> i]

\* node.metadata["coordinateTransformations"]: one list per dataset
NodeTransformations(t) == [i \in 1..t |-> <<Description(i)>>]

\* the nodes a Reader may yield
Nodes ==
    [cls : {"Node"}, specs : SUBSET SpecMarkers,
     datasets : {[i \in 1..d |-> DatasetPath(i)] : d \in 0..MaxDatasets},
     coordinateTransformations : {NodeTransformations(t) : t \in 0..MaxDatasets}]

\* get_transformation_from_dict: the typed transformation of a description
get_transformation_from_dict(desc) == [cls |-> "BaseTransformation", of |-> desc]

\* a raised Python exception; the raise sites pass no element key to it
Exception(exc, msg) == [cls |-> exc, msg |-> msg, key |-> NoKey]

Raise(exc, msg) == [ok |-> FALSE, err |-> Exception(exc, msg)]

Return(v) == [ok |-> TRUE, val |-> v]

\* f"scale{i}"
ScaleKey(i) == "scale" \o ToString(i)

\* DataArray(data, name=name, dims=axes, attrs={"transform": t})
DataArray(data, t) == [data |-> data, attrs |-> [transform |-> t]]

(***************************************************************************)
(* _read_multiscale                                                        *)
(***************************************************************************)
\* the dict of the loop with every level given the first transformation
MultiscaleDictFirstTransform(datasets, transformations) ==
    [s \in {ScaleKey(i - 1) : i \in 1..Len(datasets)} |->
        LET i == CHOOSE j \in 1..Len(datasets) : ScaleKey(j - 1) = s
        IN  DataArray(datasets[i], transformations[1])]

\* the dict built by the loop over enumerate(zip(transformations, datasets))
MultiscaleDict(datasets, transformations) ==
    [s \in {ScaleKey(i - 1) : i \in 1..Len(datasets)} |->
        LET i == CHOOSE j \in 1..Len(datasets) : ScaleKey(j - 1) = s
        IN  DataArray(datasets[i], transformations[i])]

\* _read_multiscale without the assert of line 34 (zip stops at the shorter list)
ReadMultiscaleNoAssert(node) ==
    LET datasets == node.datasets
        transformations ==
            [i \in 1..Len(node.coordinateTransformations) |->
                get_transformation_from_dict(node.coordinateTransformations[i][1])]
    IN  IF Len(datasets) > 1
        THEN Return([cls |-> "MultiscaleSpatialImage",
                     scales |-> MultiscaleDict(SubSeq(datasets, 1, Len(transformations)),
                                               transformations)])
        ELSE IF Len(transformations) = 0 \/ Len(datasets) = 0
        THEN Raise("IndexError", "list index out of range")
        ELSE Return([cls |-> "SpatialImage",
                     data |-> datasets[1],
                     attrs |-> [transform |-> transformations[1]]])

_read_multiscale(node) ==
    LET datasets == node.datasets
        transformations ==
            [i \in 1..Len(node.coordinateTransformations) |->
                get_transformation_from_dict(node.coordinateTransformations[i][1])]
    IN  IF Len(transformations) # Len(datasets)
        THEN Raise("AssertionError", "Expecting one transformation per dataset.")
        ELSE IF Len(datasets) > 1
        THEN Return([cls |-> "MultiscaleSpatialImage",
                     scales |-> MultiscaleDict(datasets, transformations)])
        ELSE IF Len(transformations) = 0
        THEN Raise("IndexError", "list index out of range")
        ELSE Return([cls |-> "SpatialImage",
                     data |-> datasets[1],
                     attrs |-> [transform |-> transformations[1]]])

(***************************************************************************)
(* Geometry elements: _read_points, _read_shapes, _read_polygons           *)
(***************************************************************************)
\* shapely.GeometryType(code).name; an unknown code has no member
GeometryTypeName(code) ==
    CASE code = -1 -> "MISSING"
      [] code = 0 -> "POINT"
      [] code = 1 -> "LINESTRING"
      [] code = 2 -> "LINEARRING"
      [] code = 3 -> "POLYGON"
      [] code = 4 -> "MULTIPOINT"
      [] code = 5 -> "MULTILINESTRING"
      [] code = 6 -> "MULTIPOLYGON"
      [] code = 7 -> "GEOMETRYCOLLECTION"
      [] OTHER -> NoKey

\* geometry_type codes and geometry_name strings a polygons group may store
StoredCodes == {0, 3, 8}

StoredNames == {"POINT", "POLYGON", "Point"}

\* attrs["multiscales"][0]["datasets"][0]["coordinateTransformations"]
GeometryTransformations == {[i \in 1..n |-> Description(i)] : n \in 0..MaxTransforms}

\* the nested helper of read_zarr; no statement of the file calls it
_get_transform_from_group(group) ==
    LET transformations ==
            [i \in 1..Len(group.coordinateTransformations) |->
                get_transformation_from_dict(group.coordinateTransformations[i])]
    IN  IF Len(transformations) # 1
        THEN Raise("AssertionError", "Expecting only one transformation per multiscale")
        ELSE Return(transformations[1])

\* get_transformation_from_dict(attrs["coordinateTransformations"][0])
FirstTransform(group) ==
    IF Len(group.coordinateTransformations) = 0
    THEN Raise("IndexError", "list index out of range")
    ELSE Return(get_transformation_from_dict(group.coordinateTransformations[1]))

_read_points(group) ==
    LET transforms == FirstTransform(group)
    IN  IF ~transforms.ok THEN transforms
        ELSE Return([cls |-> "AnnData", uns |-> [transform |-> transforms.val]])

_read_shapes(group) ==
    LET transforms == FirstTransform(group)
    IN  IF ~transforms.ok THEN transforms
        ELSE Return([cls |-> "AnnData",
                     uns |-> [transform |-> transforms.val,
                              spatialdata_attrs |-> group.spatialdata_attrs]])

\* _read_polygons without the assert of line 173
ReadPolygonsNoNameCheck(group) ==
    LET geos == group.spatialdata_attrs.geos
        transforms == FirstTransform(group)
    IN  IF GeometryTypeName(geos.geometry_type) = NoKey
        THEN Raise("ValueError", "not a valid GeometryType")
        ELSE IF ~transforms.ok THEN transforms
        ELSE Return([cls |-> "GeoDataFrame",
                     geometry |-> GeometryTypeName(geos.geometry_type),
                     attrs |-> [transform |-> transforms.val]])

_read_polygons(group) ==
    LET geos == group.spatialdata_attrs.geos
        transforms == FirstTransform(group)
    IN  IF GeometryTypeName(geos.geometry_type) = NoKey
        THEN Raise("ValueError", "not a valid GeometryType")
        ELSE IF GeometryTypeName(geos.geometry_type) # geos.geometry_name
        THEN Raise("AssertionError", "")
        ELSE IF ~transforms.ok THEN transforms
        ELSE Return([cls |-> "GeoDataFrame",
                     geometry |-> GeometryTypeName(geos.geometry_type),
                     attrs |-> [transform |-> transforms.val]])

(***************************************************************************)
(* The annotation table                                                    *)
(***************************************************************************)
\* TableModel.ATTRS_KEY
ATTRS_KEY == "spatialdata_attrs"

AttrKeys == {"region", "region_key", "instance_key"}

PyStr(s) == [cls |-> "str", value |-> s]

PyList(items) == [cls |-> "list", items |-> items]

NdArray(items) == [cls |-> "ndarray", items |-> items]

\* numpy.ndarray.tolist
tolist(a) == PyList(a.items)

\* the values an attribute of the stored table may hold
StoredAttrValues(key) ==
    IF key = "region"
    THEN {NdArray(<<"fov1">>), PyList(<<"fov1">>), PyStr("fov1")}
    ELSE {PyStr(key \o "_column")}

\* the attribute groups table.uns[ATTRS_KEY] may hold when it is present
StoredAttrs ==
    UNION {{a \in [present -> UNION {StoredAttrValues(key) : key \in present}] :
               \A key \in present : a[key] \in StoredAttrValues(key)} :
           present \in SUBSET AttrKeys}

\* table.uns as read_anndata_zarr returns it
StoredUns == {<<>>} \cup {[x \in {ATTRS_KEY} |-> a] : a \in StoredAttrs}

\* dict lookup with a default for a missing key
Get(d, key, default) == IF key \in DOMAIN d THEN d[key] ELSE default

\* the three keys set to None whether present or not
FixAttrsDropPresent(attrs) ==
    [key \in AttrKeys |-> None]

\* lines 142-150: fill the missing keys with None, make an ndarray region a list
FixAttrs(attrs) ==
    LET filled == [key \in DOMAIN attrs \cup AttrKeys |-> Get(attrs, key, None)]
    IN  IF filled["region"].cls = "ndarray"
        THEN [filled EXCEPT !["region"] = tolist(filled["region"])]
        ELSE filled

\* lines 139-150 on the loaded table's uns
FixUns(uns) ==
    IF ATTRS_KEY \in DOMAIN uns
    THEN [uns EXCEPT ![ATTRS_KEY] = FixAttrs(uns[ATTRS_KEY])]
    ELSE uns

(***************************************************************************)
(* read_zarr                                                               *)
(***************************************************************************)
VARIABLES
    pc,         \* the position of read_zarr
    keys,       \* the names of f.keys() the loop of line 85 has not reached
    k,          \* the loop variable of line 85
    node,       \* the loop variable of lines 95 and 112, while its loop runs
    visited,    \* the names of g.keys() the loop of line 123 has passed
    elem,       \* the sub-group g[j] of line 124 (name, attributes), while the loop runs
    nread,      \* the number of nodes and sub-groups visited so far
    images, labels, points, polygons, shapes,   \* the dicts of lines 65-70
    table,      \* the table slot of line 68
    declaring,  \* history: the groups whose table was loaded, in order
    err,        \* the exception that left read_zarr, or None
    result      \* the returned SpatialData, or None

vars == <<pc, keys, k, node, visited, elem, nread, images, labels, points,
          polygons, shapes, table, declaring, err, result>>

elements == <<images, labels, points, polygons, shapes>>

\* {} of lines 65-70
EmptyDict == <<>>

\* a fresh dict holding only d[key] = v
DictSetOnly(d, key, v) == [x \in {key} |-> v]

\* d[key] = v
DictSet(d, key, v) == [x \in DOMAIN d \cup {key} |-> IF x = key THEN v ELSE d[x]]

\* the test of lines 96-98 without its second half
IsImageAnyMultiscales(n) == "Multiscales" \in n.specs

\* lines 96-98: some spec is Multiscales and no spec is Label
IsImage(n) == "Multiscales" \in n.specs /\ "Label" \notin n.specs

\* lines 113-115: some spec is Multiscales and some spec is Label
IsLabel(n) == "Multiscales" \in n.specs /\ "Label" \in n.specs

\* g[j].name for a direct child j of the group g
GroupPath(j) == "/" \o j

\* the names g.keys() may enumerate: the four roles and a resolution array
ChildNames == {"points", "polygons", "shapes", "table", "0"}

\* spatialdata_attrs of a polygons or shapes group
StoredGeos ==
    [geos : [geometry_type : StoredCodes, geometry_name : StoredNames]]

\* what the store may hold at the sub-group named j
ChildContents(j) ==
    CASE j = "points" ->
            [name : {GroupPath(j)}, coordinateTransformations : GeometryTransformations]
      [] j = "shapes" ->
            [name : {GroupPath(j)}, coordinateTransformations : GeometryTransformations,
             spatialdata_attrs : {[type |-> "shapes"]}]
      [] j = "polygons" ->
            [name : {GroupPath(j)}, coordinateTransformations : GeometryTransformations,
             spatialdata_attrs : StoredGeos]
      [] j = "table" -> [name : {GroupPath(j)}, uns : StoredUns]
      [] OTHER -> [name : {GroupPath(j)}]

\* SpatialData(images=..., labels=..., points=..., polygons=..., shapes=..., table=...)
SpatialData(im, la, po, pg, sh, ta) ==
    [cls |-> "SpatialData", images |-> im, labels |-> la, points |-> po,
     polygons |-> pg, shapes |-> sh, table |-> ta]

Init ==
    /\ pc = "keys"
    /\ keys \in SUBSET Keys
    /\ k = NoKey
    /\ node = Unbound
    /\ visited = {}
    /\ elem = Unbound
    /\ nread = 0
    /\ images = EmptyDict /\ labels = EmptyDict /\ points = EmptyDict
    /\ polygons = EmptyDict /\ shapes = EmptyDict
    /\ table = None
    /\ declaring = <<>>
    /\ err = None
    /\ result = None

\* an exception that is swallowed: what was accumulated is returned
FailPartial(e) ==
    /\ pc' = "returned"
    /\ err' = e
    /\ result' = SpatialData(images, labels, points, polygons, shapes, table)
    /\ UNCHANGED <<keys, k, node, visited, elem, nread, elements, table, declaring>>

\* an exception leaves read_zarr: nothing is returned
Fail(e) ==
    /\ pc' = "raised"
    /\ err' = e
    /\ UNCHANGED <<keys, k, node, visited, elem, nread, elements, table, declaring, result>>

\* line 85: the loop takes the next top-level group, in the store's order
NextKey ==
    /\ pc = "keys"
    /\ \E key \in keys :
        /\ k' = key
        /\ keys' = keys \ {key}
    /\ visited' = {}
    /\ pc' = "image_nodes"
    /\ UNCHANGED <<node, elem, nread, elements, table, declaring, err, result>>

\* line 95: the loop takes the next node of image_nodes
NextImageNode ==
    /\ pc = "image_nodes"
    /\ nread < MaxElements
    /\ node' \in Nodes
    /\ nread' = nread + 1
    /\ pc' = "image_node"
    /\ UNCHANGED <<keys, k, visited, elem, elements, table, declaring, err, result>>

\* lines 96-102: the body of the loop over image_nodes
ReadImageNode ==
    /\ pc = "image_node"
    /\ IF IsImage(node)
       THEN LET r == _read_multiscale(node)
            IN  IF r.ok
                THEN /\ images' = DictSet(images, k, r.val)
                     /\ pc' = "image_nodes"
                     /\ UNCHANGED <<keys, k, node, visited, elem, nread, labels, points,
                                    polygons, shapes, table, declaring, err, result>>
                ELSE Fail(r.err)
       ELSE /\ pc' = "image_nodes"
            /\ UNCHANGED <<keys, k, node, visited, elem, nread, elements, table,
                           declaring, err, result>>

\* lines 106-107: image_nodes is exhausted; labels_loc exists or not
EndImageNodes ==
    /\ pc = "image_nodes"
    /\ \E exists \in BOOLEAN : pc' = IF exists THEN "labels_nodes" ELSE "rest"
    /\ node' = Unbound
    /\ UNCHANGED <<keys, k, visited, elem, nread, elements, table,
                   declaring, err, result>>

\* line 112: the loop takes the next node of labels_nodes
NextLabelNode ==
    /\ pc = "labels_nodes"
    /\ nread < MaxElements
    /\ node' \in Nodes
    /\ nread' = nread + 1
    /\ pc' = "label_node"
    /\ UNCHANGED <<keys, k, visited, elem, elements, table, declaring, err, result>>

\* lines 113-119: the body of the loop over labels_nodes
ReadLabelNode ==
    /\ pc = "label_node"
    /\ IF IsLabel(node)
       THEN LET r == _read_multiscale(node)
            IN  IF r.ok
                THEN /\ labels' = DictSet(labels, k, r.val)
                     /\ pc' = "labels_nodes"
                     /\ UNCHANGED <<keys, k, node, visited, elem, nread, images, points,
                                    polygons, shapes, table, declaring, err, result>>
                ELSE Fail(r.err)
       ELSE /\ pc' = "labels_nodes"
            /\ UNCHANGED <<keys, k, node, visited, elem, nread, elements, table,
                           declaring, err, result>>

\* line 122: labels_nodes is exhausted
EndLabelNodes ==
    /\ pc = "labels_nodes"
    /\ pc' = "rest"
    /\ node' = Unbound
    /\ UNCHANGED <<keys, k, visited, elem, nread, elements, table,
                   declaring, err, result>>

\* lines 123-125: the loop takes the next sub-group of the top-level group
NextChild ==
    /\ pc = "rest"
    /\ nread < MaxElements
    /\ \E j \in ChildNames \ visited :
        /\ elem' \in ChildContents(j)
        /\ visited' = visited \cup {j}
    /\ nread' = nread + 1
    /\ pc' = "child"
    /\ UNCHANGED <<keys, k, node, elements, table, declaring, err, result>>

\* the loop body is over: back to line 123
ChildDone ==
    /\ pc' = "rest"
    /\ UNCHANGED <<keys, k, node, visited, elem, nread, err, result>>

\* lines 127-128
ReadPoints ==
    /\ pc = "child"
    /\ elem.name = "/points"
    /\ LET r == _read_points(elem)
       IN  IF r.ok
           THEN /\ points' = DictSet(points, k, r.val)
                /\ ChildDone
                /\ UNCHANGED <<images, labels, polygons, shapes, table, declaring>>
           ELSE Fail(r.err)

\* lines 130-131
ReadPolygons ==
    /\ pc = "child"
    /\ elem.name = "/polygons"
    /\ LET r == _read_polygons(elem)
       IN  IF r.ok
           THEN /\ polygons' = DictSet(polygons, k, r.val)
                /\ ChildDone
                /\ UNCHANGED <<images, labels, points, shapes, table, declaring>>
           ELSE Fail(r.err)

\* lines 133-134
ReadShapes ==
    /\ pc = "child"
    /\ elem.name = "/shapes"
    /\ LET r == _read_shapes(elem)
       IN  IF r.ok
           THEN /\ shapes' = DictSet(shapes, k, r.val)
                /\ ChildDone
                /\ UNCHANGED <<images, labels, points, polygons, table, declaring>>
           ELSE Fail(r.err)

\* the table slot filled only while it is empty
ReadTableKeepFirst ==
    /\ pc = "child"
    /\ elem.name = "/table"
    /\ table' = IF table = None
                THEN [cls |-> "AnnData", path |-> k, uns |-> FixUns(elem.uns)]
                ELSE table
    /\ declaring' = Append(declaring, k)
    /\ ChildDone
    /\ UNCHANGED elements

\* lines 136-150: load the table of this group into the one slot, fix its attrs
ReadTable ==
    /\ pc = "child"
    /\ elem.name = "/table"
    /\ table' = [cls |-> "AnnData", path |-> k, uns |-> FixUns(elem.uns)]
    /\ declaring' = Append(declaring, k)
    /\ ChildDone
    /\ UNCHANGED elements

\* a sub-group that is none of the four roles matches no if of lines 127-136
SkipChild ==
    /\ pc = "child"
    /\ elem.name \notin {"/points", "/polygons", "/shapes", "/table"}
    /\ ChildDone
    /\ UNCHANGED <<elements, table, declaring>>

\* line 151: g.keys() is exhausted; back to line 85
EndChildren ==
    /\ pc = "rest"
    /\ pc' = "keys"
    /\ k' = NoKey
    /\ visited' = {}
    /\ elem' = Unbound
    /\ UNCHANGED <<keys, node, nread, elements, table, declaring, err, result>>

\* lines 153-160: f.keys() is exhausted
ReturnDataset ==
    /\ pc = "keys"
    /\ keys = {}
    /\ result' = SpatialData(images, labels, points, polygons, shapes, table)
    /\ pc' = "returned"
    /\ UNCHANGED <<keys, k, node, visited, elem, nread, elements, table, declaring, err>>

Next ==
    \/ NextKey
    \/ NextImageNode
    \/ ReadImageNode
    \/ EndImageNodes
    \/ NextLabelNode
    \/ ReadLabelNode
    \/ EndLabelNodes
    \/ NextChild
    \/ ReadPoints
    \/ ReadPolygons
    \/ ReadShapes
    \/ ReadTable
    \/ SkipChild
    \/ EndChildren
    \/ ReturnDataset

Spec == Init /\ [][Next]_vars

(***************************************************************************)
(* Properties                                                              *)
(***************************************************************************)
\* the number of resolution levels of an element _read_multiscale returned
Levels(e) == IF e.cls = "SpatialImage" THEN 1 ELSE Cardinality(DOMAIN e.scales)

MismatchError == Exception("AssertionError", "Expecting one transformation per dataset.")

\* a step that passes the current node to _read_multiscale
CallsReadMultiscale ==
    \/ pc = "image_node" /\ IsImage(node)
    \/ pc = "label_node" /\ IsLabel(node)

\* the dict the current call of _read_multiscale is assigned into, after the step
Target == IF pc = "image_node" THEN images' ELSE labels'

\* the step returned from _read_multiscale and stored the element under k
Stored == pc' # "raised" /\ k \in DOMAIN Target

\* C1 as stated: with d datasets and t transformations, d = t (d = 0 and d = 1
\* included) makes _read_multiscale succeed with exactly d levels, and d # t
\* makes it fail with 'Expecting one transformation per dataset.' and return
\* no element.
C1_Original ==
    [][CallsReadMultiscale =>
        LET d == Len(node.datasets)
            t == Len(node.coordinateTransformations)
        IN  /\ d = t => Stored /\ Levels(Target[k]) = d
            /\ d # t => pc' = "raised" /\ err' = MismatchError /\ elements' = elements
      ]_vars

\* C1 amended: d = t >= 1 makes _read_multiscale succeed with exactly d levels;
\* d = t = 0 makes it fail (IndexError) with no element; d # t makes it fail
\* with 'Expecting one transformation per dataset.' and return no element.
C1_Amended ==
    [][CallsReadMultiscale =>
        LET d == Len(node.datasets)
            t == Len(node.coordinateTransformations)
        IN  /\ d = t /\ d >= 1 => Stored /\ Levels(Target[k]) = d
            /\ d = t /\ d = 0 =>
                    pc' = "raised" /\ err'.cls = "IndexError" /\ elements' = elements
            /\ d # t => pc' = "raised" /\ err' = MismatchError /\ elements' = elements
      ]_vars

\* a node with mismatching counts has failed the read after a two-level
\* pyramid was read
C1_Witness ==
    /\ pc = "raised" /\ err = MismatchError
    /\ Len(node.datasets) # Len(node.coordinateTransformations)
    /\ \E key \in DOMAIN images : Levels(images[key]) = 2

\* C2: whenever _read_multiscale returns, a node with exactly one dataset gives
\* a bare single-level element (no level keys), and a node with n > 1 datasets
\* gives a pyramid whose keys are exactly scale0 .. scale(n-1), level i holding
\* the i-th dataset and the i-th transformation.
C2_BareOrPyramid ==
    [][CallsReadMultiscale /\ Stored =>
        LET n == Len(node.datasets)
            e == Target[k]
            T(i) == get_transformation_from_dict(node.coordinateTransformations[i][1])
        IN  /\ n = 1 =>
                /\ e.cls = "SpatialImage"
                /\ "scales" \notin DOMAIN e
                /\ e.data = node.datasets[1]
                /\ e.attrs.transform = T(1)
            /\ n > 1 =>
                /\ e.cls = "MultiscaleSpatialImage"
                /\ DOMAIN e.scales = {"scale" \o ToString(i) : i \in 0..(n - 1)}
                /\ \A i \in 0..(n - 1) :
                    /\ e.scales["scale" \o ToString(i)].data = node.datasets[i + 1]
                    /\ e.scales["scale" \o ToString(i)].attrs.transform = T(i + 1)
      ]_vars

\* one group holds a bare image and a two-level label pyramid (scenario B)
C2_Witness ==
    \E key \in DOMAIN images \cap DOMAIN labels :
        /\ images[key].cls = "SpatialImage"
        /\ labels[key].cls = "MultiscaleSpatialImage"
        /\ DOMAIN labels[key].scales = {"scale0", "scale1"}

\* C3: a node under the top-level group goes to images[k] iff it carries
\* Multiscales and no Label; a node under labels goes to labels[k] iff it
\* carries Multiscales and Label (in both cases unless its _read_multiscale
\* raises); a node with neither marker or with only Label changes no mapping
\* and does not make the read fail.
C3_Classification ==
    [][/\ pc = "image_node" =>
            IF "Multiscales" \in node.specs /\ "Label" \notin node.specs
            THEN \/ pc' = "raised"
                 \/ /\ k \in DOMAIN images'
                    /\ images'[k] = _read_multiscale(node).val
                    /\ labels' = labels
            ELSE elements' = elements /\ pc' # "raised"
       /\ pc = "label_node" =>
            IF "Multiscales" \in node.specs /\ "Label" \in node.specs
            THEN \/ pc' = "raised"
                 \/ /\ k \in DOMAIN labels'
                    /\ labels'[k] = _read_multiscale(node).val
                    /\ images' = images
            ELSE elements' = elements /\ pc' # "raised"
      ]_vars

\* a node that carries only Label was skipped under the top-level group of k,
\* after an image of another group was stored
C3_Witness ==
    /\ pc = "image_nodes" /\ node # Unbound /\ err = None
    /\ node.specs = {"Label"}
    /\ k \notin DOMAIN images
    /\ \E key \in DOMAIN images : key # k

\* the step reads a polygons sub-group
ReadsPolygons == pc = "child" /\ elem.name = "/polygons"

\* C4: when the canonical name of the stored geometry_type differs from the
\* stored geometry_name, _read_polygons fails before it produces a geometry
\* collection and read_zarr fails with it; when they are equal, the check of
\* line 173 does not fail.
C4_NameCheck ==
    [][ReadsPolygons /\ GeometryTypeName(elem.spatialdata_attrs.geos.geometry_type) # NoKey =>
        LET geos == elem.spatialdata_attrs.geos
        IN  IF GeometryTypeName(geos.geometry_type) # geos.geometry_name
            THEN /\ pc' = "raised"
                 /\ err' = Exception("AssertionError", "")
                 /\ elements' = elements
                 /\ result' = None
            ELSE err' # Exception("AssertionError", "")
      ]_vars

\* code 3 (POLYGON) stored with the name "Point" has failed the read (scenario D)
C4_Witness ==
    /\ pc = "raised" /\ err = Exception("AssertionError", "")
    /\ elem.name = "/polygons"
    /\ elem.spatialdata_attrs.geos = [geometry_type |-> 3, geometry_name |-> "Point"]

\* C5 as stated: reading points, polygons or shapes fails whenever the dataset
\* holds a number of transformation descriptions other than exactly one (the
\* condition _get_transform_from_group asserts).
C5_ExactlyOneTransformation ==
    [][/\ pc = "child"
       /\ elem.name \in {"/points", "/polygons", "/shapes"}
       /\ ~_get_transform_from_group(elem).ok
       => pc' = "raised"
      ]_vars

\* the step loads a table whose uns holds the attribute group
LoadsAttrs == pc = "child" /\ elem.name = "/table" /\ ATTRS_KEY \in DOMAIN elem.uns

\* C6 as stated: after a table with the attribute group is loaded, the group
\* holds region, region_key and instance_key; each key that was missing is
\* None and each key that was present keeps its value.
C6_Original ==
    [][LoadsAttrs =>
        LET raw == elem.uns[ATTRS_KEY]
            new == table'.uns[ATTRS_KEY]
        IN  /\ pc' # "raised"
            /\ \A key \in AttrKeys :
                /\ key \in DOMAIN new
                /\ key \notin DOMAIN raw => new[key] = None
                /\ key \in DOMAIN raw => new[key] = raw[key]
      ]_vars

\* C6 amended: after a table with the attribute group is loaded, the group
\* holds region, region_key and instance_key; each key that was missing is
\* None and each key that was present keeps its value, except that a region
\* held as an ndarray becomes the plain list of the same items; no partial
\* presence is rejected.
C6_Amended ==
    [][LoadsAttrs =>
        LET raw == elem.uns[ATTRS_KEY]
            new == table'.uns[ATTRS_KEY]
        IN  /\ pc' # "raised"
            /\ \A key \in AttrKeys :
                /\ key \in DOMAIN new
                /\ key \notin DOMAIN raw => new[key] = None
                /\ key \in DOMAIN raw =>
                    IF key = "region" /\ raw[key].cls = "ndarray"
                    THEN new[key] = [cls |-> "list", items |-> raw[key].items]
                    ELSE new[key] = raw[key]
      ]_vars

\* only region_key was stored: region and instance_key are None (scenario C)
C6_Witness ==
    /\ pc = "rest" /\ elem # Unbound /\ table # None
    /\ elem.name = "/table"
    /\ ATTRS_KEY \in DOMAIN elem.uns
    /\ DOMAIN elem.uns[ATTRS_KEY] = {"region_key"}
    /\ table.uns[ATTRS_KEY] =
          [key \in AttrKeys |-> IF key = "region_key"
                                THEN [cls |-> "str", value |-> "region_key_column"]
                                ELSE None]

\* C7: the table slot holds at most one table, the table of the last-processed
\* group that declared one (none if no group did); an earlier table is
\* overwritten without error, and a group without a table leaves the slot.
C7_LastTableWins ==
    /\ IF declaring = <<>>
       THEN table = None
       ELSE table.cls = "AnnData" /\ table.path = declaring[Len(declaring)]
    /\ pc = "returned" => result.table = table
    /\ pc = "raised" => elem = Unbound \/ elem.name # "/table"

\* two groups declared a table and the read returned
C7_Witness == pc = "returned" /\ Len(declaring) = 2 /\ result.table # None

\* C8: no partial result: once an exception is raised nothing is returned and
\* the call does nothing more; a dataset is returned only when every top-level
\* group was processed and no exception was raised, and it holds what was
\* accumulated.
C8_NoPartialResult ==
    /\ pc = "raised" <=> err # None
    /\ err # None => result = None /\ ~ENABLED Next
    /\ result # None =>
        /\ pc = "returned" /\ keys = {} /\ err = None
        /\ result = SpatialData(images, labels, points, polygons, shapes, table)

\* an element fails after another one was accumulated
C8_Witness ==
    /\ pc = "raised" /\ result = None
    /\ DOMAIN images \cup DOMAIN labels \cup DOMAIN points
        \cup DOMAIN polygons \cup DOMAIN shapes # {}

\* C9 as stated: every exception that leaves read_zarr carries the key of the
\* element being processed.
C9_ErrorCarriesKey == pc = "raised" => err.key = k

\* C10: a step of the walk writes only entries keyed by the current group k,
\* the value it writes is the element read from the current node or sub-group
\* alone, and the entries of every other group stay as they are; the keys of
\* each mapping are groups already enumerated.  The five mappings returned are
\* therefore the same for every enumeration order of the groups.
C10_OrderIndependent ==
    [][/\ \A key \in Keys \ {k'} :
            /\ key \in DOMAIN images' <=> key \in DOMAIN images
            /\ key \in DOMAIN images => images'[key] = images[key]
            /\ key \in DOMAIN labels' <=> key \in DOMAIN labels
            /\ key \in DOMAIN labels => labels'[key] = labels[key]
            /\ key \in DOMAIN points' <=> key \in DOMAIN points
            /\ key \in DOMAIN points => points'[key] = points[key]
            /\ key \in DOMAIN polygons' <=> key \in DOMAIN polygons
            /\ key \in DOMAIN polygons => polygons'[key] = polygons[key]
            /\ key \in DOMAIN shapes' <=> key \in DOMAIN shapes
            /\ key \in DOMAIN shapes => shapes'[key] = shapes[key]
       /\ DOMAIN images' \cup DOMAIN labels' \cup DOMAIN points'
            \cup DOMAIN polygons' \cup DOMAIN shapes' \subseteq Keys \ keys'
       /\ images' # images => images'[k] = _read_multiscale(node).val
       /\ labels' # labels => labels'[k] = _read_multiscale(node).val
       /\ points' # points => points'[k] = _read_points(elem).val
       /\ polygons' # polygons => polygons'[k] = _read_polygons(elem).val
       /\ shapes' # shapes => shapes'[k] = _read_shapes(elem).val
      ]_vars

\* the returned dataset holds entries of two groups
C10_Witness ==
    /\ pc = "returned"
    /\ Cardinality(DOMAIN result.images \cup DOMAIN result.labels
                    \cup DOMAIN result.points \cup DOMAIN result.polygons
                    \cup DOMAIN result.shapes) = 2

=============================================================================
